---- MODULE Spec2Model ----
(***************************************************************************)
(* A model of the best-ball draft analytics repository: the dashboard's    *)
(* player-combination engine (src/src/player_combinations.py and the       *)
(* stand-alone src/player_combinations.py) and the backend's query         *)
(* services (DataService on Polars, AnalyticsService on DuckDB).           *)
(*                                                                         *)
(* A data frame is a sequence of row records.  Where Polars or DuckDB      *)
(* leave the order of rows open (group_by and unique without               *)
(* maintain_order, ORDER BY among equal keys) the model takes every order. *)
(***************************************************************************)
EXTENDS Integers, Sequences, FiniteSets, TLC

VARIABLES
    df,       \* the loaded Polars frame (data_manager.load_data / DataService._df)
    picks,    \* the DuckDB view "picks": the parquet file as stored
    metadata, \* the metadata cached when the data is loaded
    pc,       \* "idle", "running" (a handler is being served), "returned"
    call,     \* the operation called last, with its arguments
    result    \* what that call returned (empty while it runs)

vars == <<df, picks, metadata, pc, call, result>>

(***************************************************************************)
(* Bounds of the model.                                                    *)
(***************************************************************************)
\* Drafts of the modelled datasets have rounds 1..MaxRound.
MaxRound == 2

(***************************************************************************)
(* Generic helpers.                                                        *)
(***************************************************************************)
Range(s) == {s[i] : i \in DOMAIN s}

\* Python's None / a present value.
None == <<>>
Some(v) == <<v>>

\* All orders a set of rows can come out in.
Orderings(S) ==
    {s \in [1..Cardinality(S) -> S] : \A x \in S : \E i \in DOMAIN s : s[i] = x}

\* s sorted by a strict order, given as less[i, j] for the elements at places
\* i and j; equal elements keep their order.  The element at place i goes
\* after those less than it and those equal and earlier.
StableSort(s, less) ==
    LET rank(i) == 1 + Cardinality({j \in DOMAIN s :
                        less[j, i] \/ (~less[i, j] /\ j < i)})
    IN  [k \in DOMAIN s |-> s[CHOOSE i \in DOMAIN s : rank(i) = k]]

(***************************************************************************)
(* Text.  A player name is a string; Chars gives its characters, Ord the   *)
(* code point of a character, so that sorting names and searching in them  *)
(* are computed from the characters as the engines compute them.           *)
(***************************************************************************)
Chars(str) ==
    CASE str = "A.J. Brown" -> <<"A", ".", "J", ".", " ", "B", "r", "o", "w", "n">>
      [] str = "AJ Dillon" -> <<"A", "J", " ", "D", "i", "l", "l", "o", "n">>
      [] str = "D'Andre Swift" ->
            <<"D", "'", "A", "n", "d", "r", "e", " ", "S", "w", "i", "f", "t">>
      [] str = "Jalen Hurts" -> <<"J", "a", "l", "e", "n", " ", "H", "u", "r", "t", "s">>
      [] str = "Jake Elliott" ->
            <<"J", "a", "k", "e", " ", "E", "l", "l", "i", "o", "t", "t">>
      [] str = "Dallas Goedert" ->
            <<"D", "a", "l", "l", "a", "s", " ", "G", "o", "e", "d", "e", "r", "t">>
      [] str = "DJ Moore" ->
            <<"D", "J", " ", "M", "o", "o", "r", "e">>
      [] str = "Eagles" ->
            <<"E", "a", "g", "l", "e", "s">>
      [] str = "QB" -> <<"Q", "B">>
      [] str = "RB" -> <<"R", "B">>
      [] str = "WR" -> <<"W", "R">>
      [] str = "TE" -> <<"T", "E">>
      [] str = "PHI" -> <<"P", "H", "I">>
      [] str = "GB" -> <<"G", "B">>
      [] str = "CHI" -> <<"C", "H", "I">>

UpperCase == <<"A", "B", "C", "D", "E", "F", "G", "H", "I", "J", "K", "L", "M",
               "N", "O", "P", "Q", "R", "S", "T", "U", "V", "W", "X", "Y", "Z">>
LowerCase == <<"a", "b", "c", "d", "e", "f", "g", "h", "i", "j", "k", "l", "m",
               "n", "o", "p", "q", "r", "s", "t", "u", "v", "w", "x", "y", "z">>

\* The code point of a character.
Ord(c) ==
    CASE c = " " -> 32
      [] c = "'" -> 39
      [] c = "." -> 46
      [] c = "|" -> 124
      [] c \in Range(UpperCase) -> 64 + (CHOOSE i \in 1..26 : UpperCase[i] = c)
      [] c \in Range(LowerCase) -> 96 + (CHOOSE i \in 1..26 : LowerCase[i] = c)

RECURSIVE CharsLess(_, _)
\* Lexicographic order of character sequences by code point.
CharsLess(a, b) ==
    IF b = <<>> THEN FALSE
    ELSE IF a = <<>> THEN TRUE
    ELSE IF Head(a) = Head(b) THEN CharsLess(Tail(a), Tail(b))
    ELSE Ord(Head(a)) < Ord(Head(b))

\* The strings of the datasets: player names, positions, NFL teams.
Names == {"A.J. Brown", "AJ Dillon", "D'Andre Swift", "Jalen Hurts",
          "Jake Elliott", "Dallas Goedert", "DJ Moore", "Eagles"}
Strings == Names \cup {"QB", "RB", "WR", "TE"} \cup {"PHI", "GB", "CHI"}

StrLessTable == [a \in Strings, b \in Strings |-> CharsLess(Chars(a), Chars(b))]

\* The order Polars and DuckDB sort strings in.
StrLess(a, b) == StrLessTable[a, b]

\* A list of strings, sorted.
SortStrings(frame) ==
    StableSort(frame, [i, j \in DOMAIN frame |-> StrLess(frame[i], frame[j])])

RECURSIVE StrJoin(_, _)
\* sep.join(s) / list.join(sep)
StrJoin(s, sep) ==
    IF s = <<>> THEN ""
    ELSE IF Len(s) = 1 THEN s[1]
    ELSE s[1] \o sep \o StrJoin(Tail(s), sep)

(***************************************************************************)
(* The datasets.  A pick is one row: the draft (room), the team and its    *)
(* draft position (slot), the round, the overall pick number, the player,  *)
(* the player's position and NFL team.                                     *)
(***************************************************************************)
\* The teams of the test fixture: two teams of draft 1, one of draft 2.
TeamSeq == <<[team_id |-> 101, draft |-> 1, draft_position |-> 1],
            [team_id |-> 102, draft |-> 1, draft_position |-> 2],
            [team_id |-> 201, draft |-> 2, draft_position |-> 1]>>

Teams == Range(TeamSeq)
TeamIds == {t.team_id : t \in Teams}

\* The players the datasets draft from; Jalen Hurts is in no dataset.
Players == {"A.J. Brown", "AJ Dillon", "D'Andre Swift"}

PositionOf(name) ==
    CASE name = "A.J. Brown" -> "WR"
      [] name \in {"AJ Dillon", "D'Andre Swift"} -> "RB"
      [] name = "Jalen Hurts" -> "QB"
      [] name = "Jake Elliott" -> "K"
      [] name = "Dallas Goedert" -> "TE"
      [] name = "DJ Moore" -> "WR"
      [] name = "Eagles" -> "DST"

NflTeamOf(name) ==
    CASE name \in {"A.J. Brown", "Jalen Hurts", "Jake Elliott", "Dallas Goedert", "Eagles"} -> "PHI"
      [] name = "AJ Dillon" -> "GB"
      [] name \in {"D'Andre Swift", "DJ Moore"} -> "CHI"

\* Slots of a draft room: the overall pick number of (round, slot).
NumSlots == 12
PickNumber(round, slot) == (round - 1) * NumSlots + slot

PickRow(t, round, name) ==
    [draft |-> t.draft, team_id |-> t.team_id, draft_position |-> t.draft_position,
     round |-> round, pick |-> PickNumber(round, t.draft_position),
     player |-> name, Position |-> PositionOf(name), Team |-> NflTeamOf(name)]

\* A roster: the player a team takes in each round, no player twice.
Rosters(players) ==
    {r \in [1..MaxRound -> players] : \A i, j \in 1..MaxRound : i # j => r[i] # r[j]}

\* Pick order of the file: by draft, then round, then slot.
PickOrderLess(a, b) ==
    \/ a.draft < b.draft
    \/ a.draft = b.draft /\ a.round < b.round
    \/ a.draft = b.draft /\ a.round = b.round /\ a.draft_position < b.draft_position

SortByPickOrder(frame) ==
    StableSort(frame, [i, j \in DOMAIN frame |-> PickOrderLess(frame[i], frame[j])])

\* The frame holding the picks of an assignment of rosters to teams; the
\* k-th pick of a team is made in round roundNo[k].
FrameWith(rosterOf, roundNo) ==
    LET byTeam == [i \in 1..(Len(TeamSeq) * MaxRound) |->
                     LET t == TeamSeq[((i - 1) \div MaxRound) + 1]
                         r == ((i - 1) % MaxRound) + 1
                     IN  PickRow(t, roundNo[r], rosterOf[t.team_id][r])]
    IN  SortByPickOrder(byTeam)

FrameOf(rosterOf) == FrameWith(rosterOf, [k \in 1..MaxRound |-> k])

DashDatasets ==
    {FrameOf(ro) : ro \in [TeamIds -> Rosters(Players)]} \cup {<<>>}

(***************************************************************************)
(* Polars operations, as the engines use them.                             *)
(***************************************************************************)
\* Mutant of RoundLeq: the round filter forgotten.
RoundLeq_NoFilter(round, n_rounds) == TRUE

\* pl.col("round") <= n_rounds; a comparison with None is null, and filter
\* keeps no row whose predicate is null.
RoundLeq(round, n_rounds) == n_rounds # None /\ round <= n_rounds[1]

\* .sort(["team_id", "round", "draft_position"])
TeamRoundLess(a, b) ==
    \/ a.team_id < b.team_id
    \/ a.team_id = b.team_id /\ a.round < b.round
    \/ a.team_id = b.team_id /\ a.round = b.round /\ a.draft_position < b.draft_position

SortByTeamRound(frame) ==
    StableSort(frame, [i, j \in DOMAIN frame |-> TeamRoundLess(frame[i], frame[j])])

\* .sort("draft", "draft_position")
DraftSlotLess(a, b) ==
    \/ a.draft < b.draft
    \/ a.draft = b.draft /\ a.draft_position < b.draft_position

SortByDraftSlot(frame) ==
    StableSort(frame, [i, j \in DOMAIN frame |-> DraftSlotLess(frame[i], frame[j])])

\* Mutant of AggPlayers: the display list taken in name order.
AggPlayers_ByName(group) == SortStrings([i \in DOMAIN group |-> group[i].player])

\* pl.col("player").alias("players"): the group's players in row order.
AggPlayers(group) == [i \in DOMAIN group |-> group[i].player]

\* Mutant of AggPlayersSorted: the .sort() forgotten.
AggPlayersSorted_Unsorted(group) == [i \in DOMAIN group |-> group[i].player]

\* pl.col("player").sort().alias("players_sorted")
AggPlayersSorted(group) == SortStrings(AggPlayers(group))

\* .group_by("team_id").agg([...]) of a frame, the groups in the order
\* groupOrder (group_by keeps the rows of a group in frame order and leaves the
\* order of the groups open).
GroupByTeam(frame, groupOrder) ==
    [g \in DOMAIN groupOrder |->
        LET group == SelectSeq(frame, LAMBDA row : row.team_id = groupOrder[g])
        IN  [team_id |-> groupOrder[g],
             players |-> AggPlayers(group),
             players_sorted |-> AggPlayersSorted(group),
             draft |-> group[1].draft,
             draft_position |-> group[1].draft_position]]

\* Mutant of ContainsAll: any_horizontal, a partial match passes.
ContainsAll_Any(players, required) == \E p \in Range(required) : p \in Range(players)

\* pl.all_horizontal(pl.col("players").list.contains(p) for p in required)
ContainsAll(players, required) == \A p \in Range(required) : p \in Range(players)

\* pl.col("players_sorted").list.join("|").alias("player_combo")
PlayerCombo(players_sorted) == StrJoin(players_sorted, "|")

\* Mutant of UniqueKeepLast: keep="first".
UniqueKeepLast_First(frame) ==
    SelectSeq([i \in DOMAIN frame |-> [idx |-> i, row |-> frame[i]]],
              LAMBDA e : \A j \in DOMAIN frame :
                  frame[j].player_combo = e.row.player_combo => j >= e.idx)

\* .unique(subset="player_combo", keep="last"): of the rows that share a
\* player_combo the last one in frame order stays.  The rows are given here in
\* frame order; unique itself returns them in any order.
UniqueKeepLast(frame) ==
    SelectSeq([i \in DOMAIN frame |-> [idx |-> i, row |-> frame[i]]],
              LAMBDA e : \A j \in DOMAIN frame :
                  frame[j].player_combo = e.row.player_combo => j <= e.idx)

\* .select(["team_id", "draft", "draft_position", "players"])
SelectResult(row) ==
    [team_id |-> row.team_id, draft |-> row.draft,
     draft_position |-> row.draft_position, players |-> row.players]

(***************************************************************************)
(* The combination engine of the dashboard.                                *)
(***************************************************************************)
\* The team ids of a frame.
TeamIdsOf(frame) == {frame[i].team_id : i \in DOMAIN frame}

\* with_columns(player_combo), .sort("draft", "draft_position"): the frame
\* that unique() receives.
WithComboSorted(teamCombinations) ==
    SortByDraftSlot([i \in DOMAIN teamCombinations |->
                    [team_id |-> teamCombinations[i].team_id,
                     players |-> teamCombinations[i].players,
                     draft |-> teamCombinations[i].draft,
                     draft_position |-> teamCombinations[i].draft_position,
                     player_combo |-> PlayerCombo(teamCombinations[i].players_sorted)]])

\* The rows a run returns for one order of the groups: those unique() keeps
\* of the sorted frame, selected.
KeptRows(roundsSubset, required_players, groupOrder) ==
    LET grouped == GroupByTeam(SortByTeamRound(roundsSubset), groupOrder)
        teamCombinations ==
            IF required_players # <<>>
            THEN SelectSeq(grouped, LAMBDA g : ContainsAll(g.players, required_players))
            ELSE grouped
        kept == UniqueKeepLast(WithComboSorted(teamCombinations))
    IN  {SelectResult(kept[i].row) : i \in DOMAIN kept}

\* Every frame a run can return: unique() without maintain_order fixes no
\* order of its rows.
ReturnedFrames(roundsSubset, required_players) ==
    UNION {Orderings(KeptRows(roundsSubset, required_players, groupOrder)) :
               groupOrder \in Orderings(TeamIdsOf(roundsSubset))}

\* src/src/player_combinations.py: the package's engine (n_rounds: int = 20).
find_unique_player_combinations(frame, n_rounds, required_players) ==
    ReturnedFrames(SelectSeq(frame, LAMBDA row : RoundLeq(row.round, n_rounds)),
                   required_players)

\* src/player_combinations.py: the stand-alone app's engine
\* (n_rounds: int | None = None analyses the entire draft).
app_find_unique_player_combinations(frame, n_rounds, required_players) ==
    ReturnedFrames(IF n_rounds = None THEN frame
                   ELSE SelectSeq(frame, LAMBDA row : RoundLeq(row.round, n_rounds)),
                   required_players)

(***************************************************************************)
(* The dashboard: the data is loaded once, then update_dashboard calls the *)
(* engine with the values of the two inputs.                               *)
(***************************************************************************)
\* The rounds input: empty (None) or a number; one past the last round too.
NRoundsInputs == {None} \cup {Some(n) : n \in 1..(MaxRound + 1)}

\* The players dropdown: lists over the dataset's players and an absent one.
RequiredInputs ==
    {<<>>, <<"A.J. Brown">>, <<"AJ Dillon">>, <<"A.J. Brown", "AJ Dillon">>,
     <<"AJ Dillon", "A.J. Brown">>, <<"A.J. Brown", "D'Andre Swift">>,
     <<"A.J. Brown", "A.J. Brown">>, <<"Jalen Hurts">>,
     <<"A.J. Brown", "Jalen Hurts">>}

\* Series.unique().sort().to_list()
UniqueSorted(S) ==
    [k \in 1..Cardinality(S) |->
        CHOOSE x \in S : Cardinality({y \in S : StrLess(y, x)}) = k - 1]

\* Series.max(): None on an empty column.
MaxOrNone(S) == IF S = {} THEN None ELSE Some(CHOOSE m \in S : \A x \in S : x <= m)

\* data_manager.py get_metadata: total_drafts is the largest draft id.
get_metadata(frame) ==
    LET all_players == UniqueSorted({frame[i].player : i \in DOMAIN frame})
    IN  [all_players   |-> all_players,
         total_drafts  |-> MaxOrNone({frame[i].draft : i \in DOMAIN frame}),
         total_teams   |-> Cardinality({frame[i].team_id : i \in DOMAIN frame}),
         total_players |-> Len(all_players)]

\* DataService._initialize_data: total_drafts is the number of draft ids.
initialize_metadata(frame) ==
    LET all_players == UniqueSorted({frame[i].player : i \in DOMAIN frame})
    IN  [all_players   |-> all_players,
         total_drafts  |-> Cardinality({frame[i].draft : i \in DOMAIN frame}),
         total_teams   |-> Cardinality({frame[i].team_id : i \in DOMAIN frame}),
         total_players |-> Len(all_players)]

Loaded == [op |-> "load"]

Init ==
    /\ df \in DashDatasets
    /\ picks = df
    /\ metadata = get_metadata(df)
    /\ pc = "idle"
    /\ call = Loaded
    /\ result = <<>>

\* A handler is entered; the action that enters it records its arguments.
Enter ==
    /\ pc = "idle"
    /\ pc' = "running"
    /\ result' = <<>>
    /\ UNCHANGED <<df, picks, metadata>>

\* Mutant of Return: the handler keeps its first-round filter as the dataset.
Return_StoresFilteredFrame(op, values) ==
    /\ pc = "running"
    /\ call.op = op
    /\ pc' = "returned"
    /\ result' \in values
    /\ df' = SelectSeq(df, LAMBDA row : row.round <= 1)
    /\ UNCHANGED <<picks, metadata, call>>

\* The handler returns a value; it assigns neither the dataset nor the metadata.
Return(op, values) ==
    /\ pc = "running"
    /\ call.op = op
    /\ pc' = "returned"
    /\ result' \in values
    /\ UNCHANGED <<df, picks, metadata, call>>

\* The returned value is delivered; the program waits for the next call.
Delivered ==
    /\ pc = "returned"
    /\ pc' = "idle"
    /\ call' = Loaded
    /\ result' = <<>>
    /\ UNCHANGED <<df, picks, metadata>>

\* The find-combinations button is clicked with the values of the two inputs.
Click ==
    \E n_rounds \in NRoundsInputs, required_players \in RequiredInputs :
        \E op \in {"find_unique_player_combinations",
                    "app_find_unique_player_combinations"} :
            /\ Enter
            /\ call' = [op |-> op, n_rounds |-> n_rounds,
                        required_players |-> required_players]

\* src/src/callbacks.py update_dashboard: the package's engine on the inputs.
UpdateDashboard ==
    Return("find_unique_player_combinations",
           find_unique_player_combinations(df, call.n_rounds, call.required_players))

\* src/app.py update_dashboard: the stand-alone engine on the inputs.
AppUpdateDashboard ==
    Return("app_find_unique_player_combinations",
           app_find_unique_player_combinations(df, call.n_rounds, call.required_players))

Next == Click \/ UpdateDashboard \/ AppUpdateDashboard \/ Delivered

Spec == Init /\ [][Next]_vars

(***************************************************************************)
(* The backend.  The parquet file stores the overall pick number in 8      *)
(* signed bits; DataService normalises it on load, the DuckDB view `picks` *)
(* reads the file as it is.                                                *)
(***************************************************************************)
MaxLimit == 2
MaxOffset == 1

\* The pick column of the file: 8 signed bits.
StoredPick(pick) == ((pick + 128) % 256) - 128

\* data_service.py _initialize_data: negative picks get 256 added.
NormalisePick(pick) == IF pick < 0 THEN pick + 256 ELSE pick

initialize_data(parquet) ==
    [i \in DOMAIN parquet |-> [parquet[i] EXCEPT !.pick = NormalisePick(@)]]

ParquetOf(frame) ==
    [i \in DOMAIN frame |-> [frame[i] EXCEPT !.pick = StoredPick(@)]]

Min(a, b) == IF a <= b THEN a ELSE b

\* DataFrame.head(n)
Head_n(frame, n) == SubSeq(frame, 1, Min(n, Len(frame)))

\* DataFrame.slice(offset, length) and SQL LIMIT length OFFSET offset
Slice(frame, offset, length) == SubSeq(frame, offset + 1, Min(offset + length, Len(frame)))

\* Python's sorted() on a set of strings.
SortedStrings(S) ==
    CHOOSE s \in Orderings(S) : \A i, j \in DOMAIN s : i < j => StrLess(s[i], s[j])

(***************************************************************************)
(* get_player_combinations: the per-team aggregation and the position      *)
(* counts, shared by the two paths.                                        *)
(***************************************************************************)
\* group_by("team_id").agg(players, positions, draft_id first, draft_position first)
AggregateTeams(rows, groupOrder) ==
    [g \in DOMAIN groupOrder |->
        LET group == SelectSeq(rows, LAMBDA row : row.team_id = groupOrder[g])
        IN  [team_id |-> groupOrder[g],
             players |-> [i \in DOMAIN group |-> group[i].player],
             positions |-> [i \in DOMAIN group |-> group[i].Position],
             draft_id |-> group[1].draft,
             draft_position |-> group[1].draft_position]]

\* .sort(["draft_id", "draft_position"])
DraftIdSlotLess(a, b) ==
    \/ a.draft_id < b.draft_id
    \/ a.draft_id = b.draft_id /\ a.draft_position < b.draft_position

SortByDraftIdSlot(frame) ==
    StableSort(frame, [i, j \in DOMAIN frame |-> DraftIdSlotLess(frame[i], frame[j])])

\* The aggregated teams, sorted and cut to the limit, for each order in which
\* the group-by can emit its groups.
ResultFrames(rows, limit) ==
    {Head_n(SortByDraftIdSlot(AggregateTeams(rows, groupOrder)), limit) :
        groupOrder \in Orderings(TeamIdsOf(rows))}

\* The columns of the pivot: the positions of the teams of the result.
PositionsOf(result_df) ==
    UNION {Range(result_df[i].positions) : i \in DOMAIN result_df}

\* The count cell of the pivot, nulls filled with 0.
PositionCount(team, position) ==
    Cardinality({i \in DOMAIN team.positions : team.positions[i] = position})

\* concat_str of "{}: {}" over pos_cols, separator ", "
PositionCountsStr(team, pos_cols) ==
    StrJoin([k \in DOMAIN pos_cols |->
                pos_cols[k] \o ": " \o ToString(PositionCount(team, pos_cols[k]))], ", ")

\* result_df.join(position_counts_str_df, on="team_id", how="left")
JoinPositionCounts(result_df, pos_cols) ==
    [i \in DOMAIN result_df |->
        [team_id |-> result_df[i].team_id,
         players |-> result_df[i].players,
         positions |-> result_df[i].positions,
         draft_id |-> result_df[i].draft_id,
         draft_position |-> result_df[i].draft_position,
         position_counts |-> PositionCountsStr(result_df[i], pos_cols)]]

(***************************************************************************)
(* AnalyticsService.get_player_combinations, DuckDB path.                  *)
(***************************************************************************)
\* CTE filtered: WHERE round <= n_rounds
DuckFiltered(table, n_rounds) == SelectSeq(table, LAMBDA row : row.round <= n_rounds)

\* CTE target_teams: the teams of `filtered` whose picks among the listed
\* players count as many distinct players as the list has entries.
DuckTargetTeams(filtered, required_players) ==
    {t \in TeamIdsOf(filtered) :
        Cardinality({row.player : row \in {r \in Range(filtered) :
            r.team_id = t /\ r.player \in Range(required_players)}})
          = Len(required_players)}

\* ORDER BY draft, draft_position, team_id, round
DuckOrderLess(a, b) ==
    \/ a.draft < b.draft
    \/ a.draft = b.draft /\ a.draft_position < b.draft_position
    \/ a.draft = b.draft /\ a.draft_position = b.draft_position /\ a.team_id < b.team_id
    \/ a.draft = b.draft /\ a.draft_position = b.draft_position /\ a.team_id = b.team_id
         /\ a.round < b.round

SortByDuckOrder(frame) ==
    StableSort(frame, [i, j \in DOMAIN frame |-> DuckOrderLess(frame[i], frame[j])])

\* The rows the SQL query returns.
DuckCombinationRows(table, required_players, n_rounds) ==
    LET filtered == DuckFiltered(table, n_rounds)
        target_teams == DuckTargetTeams(filtered, required_players)
    IN  SortByDuckOrder(SelectSeq(filtered, LAMBDA row : row.team_id \in target_teams))

\* The reshape of the rows: the pivot's columns come in the order the
\* group-by emits the (team, position) groups, and are used as they come.
DuckReshape(rows, limit) ==
    UNION {IF result_df = <<>> THEN {<<>>}
           ELSE {JoinPositionCounts(result_df, pos_cols) :
                    pos_cols \in Orderings(PositionsOf(result_df))} :
           result_df \in ResultFrames(rows, limit)}

\* What the DuckDB path returns.
DuckDB_get_player_combinations(table, required_players, n_rounds, limit) ==
    IF required_players = <<>> THEN {<<>>}
    ELSE LET rows == DuckCombinationRows(table, required_players, n_rounds)
         IN  IF rows = <<>> THEN {<<>>} ELSE DuckReshape(rows, limit)

(***************************************************************************)
(* DataService.get_player_combinations, the Polars path.                   *)
(***************************************************************************)
\* The teams that drafted every required player, in any round.
RelevantTeams(frame, required_players) ==
    {t \in TeamIdsOf(frame) :
        Cardinality({row.player : row \in {r \in Range(frame) :
            r.team_id = t /\ r.player \in Range(required_players)}})
          = Cardinality(Range(required_players))}

DataService_get_player_combinations(frame, required_players, n_rounds, limit) ==
    IF required_players = <<>> THEN {<<>>}
    ELSE LET relevant_team_ids == RelevantTeams(frame, required_players)
             rows == SortByTeamRound(SelectSeq(frame, LAMBDA row :
                                        row.team_id \in relevant_team_ids
                                        /\ row.round <= n_rounds))
         IN  IF relevant_team_ids = {} THEN {<<>>}
             ELSE {IF result_df = <<>> THEN <<>>
                   ELSE JoinPositionCounts(result_df,
                                           SortedStrings(PositionsOf(result_df))) :
                   result_df \in ResultFrames(rows, limit)}

\* AnalyticsService.get_player_combinations: the DuckDB query; when it has
\* rows, the timing comparison returns the value of either path.
AnalyticsService_get_player_combinations(required_players, n_rounds, limit) ==
    IF required_players = <<>> THEN {<<>>}
    ELSE IF DuckCombinationRows(picks, required_players, n_rounds) = <<>> THEN {<<>>}
    ELSE DuckDB_get_player_combinations(picks, required_players, n_rounds, limit)
         \cup DataService_get_player_combinations(df, required_players, n_rounds, limit)

\* The datasets of the combinations endpoint, as the file stores them.
CombinationParquets ==
    {ParquetOf(FrameOf(ro)) : ro \in [TeamIds -> Rosters(Players)]}

InitCombinations ==
    /\ picks \in CombinationParquets
    /\ df = initialize_data(picks)
    /\ metadata = initialize_metadata(df)
    /\ pc = "idle"
    /\ call = Loaded
    /\ result = <<>>

\* GET /api/combinations
RequestCombinations ==
    \E required_players \in RequiredInputs, n_rounds \in 1..(MaxRound + 1),
       limit \in 1..MaxLimit :
        /\ Enter
        /\ call' = [op |-> "get_player_combinations",
                    required_players |-> required_players,
                    n_rounds |-> n_rounds, limit |-> limit]

GetPlayerCombinations ==
    Return("get_player_combinations",
           AnalyticsService_get_player_combinations(call.required_players,
                                                    call.n_rounds, call.limit))

NextCombinations == RequestCombinations \/ GetPlayerCombinations \/ Delivered

SpecCombinations == InitCombinations /\ [][NextCombinations]_vars

(***************************************************************************)
(* get_players: strings as the two backends process them.                  *)
(***************************************************************************)
\* str.lower(), lower(): one character
LowerChar(c) ==
    IF \E k \in DOMAIN UpperCase : UpperCase[k] = c
    THEN LowerCase[CHOOSE k \in DOMAIN UpperCase : UpperCase[k] = c]
    ELSE c

to_lowercase(chars) == [i \in DOMAIN chars |-> LowerChar(chars[i])]

\* str.replace(c, "") and str.replace_all of a character class by ""
RemoveChars(chars, removed) == SelectSeq(chars, LAMBDA c : c \notin removed)

\* str.contains of a pattern without metacharacters, LIKE '%pattern%'
Contains(chars, pattern) ==
    \E i \in 0..(Len(chars) - Len(pattern)) :
        SubSeq(chars, i + 1, i + Len(pattern)) = pattern

\* search_term.replace("'", "''"): the term inside a SQL string literal
RECURSIVE SqlEscape(_)
SqlEscape(chars) ==
    IF chars = <<>> THEN <<>>
    ELSE (IF chars[1] = "'" THEN <<"'", "'">> ELSE <<chars[1]>>) \o SqlEscape(Tail(chars))

\* The value of a SQL string literal: a doubled quote is one quote.
RECURSIVE SqlLiteralValue(_)
SqlLiteralValue(chars) ==
    IF chars = <<>> THEN <<>>
    ELSE IF Len(chars) >= 2 /\ chars[1] = "'" /\ chars[2] = "'"
         THEN <<"'">> \o SqlLiteralValue(Tail(Tail(chars)))
         ELSE <<chars[1]>> \o SqlLiteralValue(Tail(chars))

\* `if search_term:` of both backends
HasTerm(search_term) == search_term # None /\ search_term[1] # <<>>

\* lower(player) LIKE '%<term lowered and escaped>%'
DuckSearchMatches(player, search_term) ==
    Contains(to_lowercase(Chars(player)),
             SqlLiteralValue(SqlEscape(to_lowercase(search_term[1]))))

\* player lowered, "." and "'" removed, contains the term lowered, "." removed
PolarsSearchMatches(player, search_term) ==
    Contains(RemoveChars(to_lowercase(Chars(player)), {".", "'"}),
             RemoveChars(to_lowercase(search_term[1]), {"."}))

(***************************************************************************)
(* get_players: the statistics.  Averages and percentages are fractions in *)
(* lowest terms.                                                           *)
(***************************************************************************)
Abs(n) == IF n < 0 THEN 0 - n ELSE n

RECURSIVE GCD(_, _)
GCD(a, b) == IF b = 0 THEN a ELSE GCD(b, a % b)

Fraction(n, d) ==
    LET g == GCD(Abs(n), d) IN [num |-> n \div g, den |-> d \div g]

FractionLess(a, b) == a.num * b.den < b.num * a.den

RECURSIVE SumPicks(_)
SumPicks(rows) == IF rows = <<>> THEN 0 ELSE rows[1].pick + SumPicks(Tail(rows))

MinPick(rows) == CHOOSE m \in {rows[i].pick : i \in DOMAIN rows} :
                    \A i \in DOMAIN rows : m <= rows[i].pick

MaxPick(rows) == CHOOSE m \in {rows[i].pick : i \in DOMAIN rows} :
                    \A i \in DOMAIN rows : m >= rows[i].pick

\* COUNT(DISTINCT draft), n_unique of draft
TotalDrafts(table) == Cardinality({table[i].draft : i \in DOMAIN table})

\* GROUP BY player, Position, Team with the four aggregates.
PlayerStats(table, total_drafts) ==
    {LET rows == SelectSeq(table, LAMBDA row :
                    <<row.player, row.Position, row.Team>> = key)
     IN  [player |-> key[1], Position |-> key[2], Team |-> key[3],
          avg_pick |-> Fraction(SumPicks(rows), Len(rows)),
          min_pick |-> MinPick(rows),
          max_pick |-> MaxPick(rows),
          draft_percentage |-> Fraction(Len(rows) * 100, total_drafts)] :
     key \in {<<table[i].player, table[i].Position, table[i].Team>> : i \in DOMAIN table}}

\* rename player, Position, Team and build the Player models
PlayerModels(page) ==
    [i \in DOMAIN page |->
        [name |-> page[i].player, position |-> page[i].Position, team |-> page[i].Team,
         avg_pick |-> page[i].avg_pick, min_pick |-> page[i].min_pick,
         max_pick |-> page[i].max_pick, draft_percentage |-> page[i].draft_percentage]]

\* The value order of a column of the statistics.
ColumnLess(column, a, b) ==
    CASE column = "avg_pick" -> FractionLess(a.avg_pick, b.avg_pick)
      [] column = "draft_percentage" -> FractionLess(a.draft_percentage, b.draft_percentage)
      [] column = "player" -> StrLess(a.player, b.player)
      [] column = "Position" -> StrLess(a.Position, b.Position)
      [] column = "Team" -> StrLess(a.Team, b.Team)

\* The frames a sort by one column can produce from unordered rows: rows
\* of equal key come in any order.
SortedBy(rows, column, sort_order) ==
    {s \in Orderings(rows) : \A i, j \in DOMAIN s : i < j =>
        IF sort_order = "desc" THEN ~ColumnLess(column, s[i], s[j])
                               ELSE ~ColumnLess(column, s[j], s[i])}

StatColumns == {"player", "Position", "Team", "avg_pick", "min_pick", "max_pick",
                "draft_percentage"}

\* SQL identifiers resolve without regard to case.
LowerName(column) ==
    CASE column = "Position" -> "position"
      [] column = "Team" -> "team"
      [] OTHER -> column

DuckColumns(sort_by) == {c \in StatColumns : LowerName(c) = LowerName(sort_by)}

\* Polars column names are exact.
PolarsColumns(sort_by) == {c \in StatColumns : c = sort_by}

Raised == [error |-> "column not found"]

Page(players, total_count) == [players |-> players, total_count |-> total_count]

\* The pages of the statistics, sorted by the column and cut.
Pages(stats, column, sort_order, offset, limit) ==
    {Slice(s, offset, limit) : s \in SortedBy(stats, column, sort_order)}

\* WHERE Position IN (...) AND lower(player) LIKE ...
DuckWhere(row, positions, search_term) ==
    /\ positions # <<>> => row.Position \in Range(positions)
    /\ HasTerm(search_term) => DuckSearchMatches(row.player, search_term)

\* What the DuckDB path returns: an unknown ORDER BY column raises; an
\* empty page is returned with the count; else the models of the page.
DuckDB_get_players(table, positions, search_term, limit, offset, sort_by, sort_order) ==
    LET stats == PlayerStats(SelectSeq(table, LAMBDA row :
                                DuckWhere(row, positions, search_term)),
                             TotalDrafts(table))
        total_count == Cardinality(stats)
    IN  IF DuckColumns(sort_by) = {} THEN {Raised}
        ELSE {Page(PlayerModels(page), total_count) :
                page \in Pages(stats, CHOOSE c \in DuckColumns(sort_by) : TRUE,
                               sort_order, offset, limit)}

\* DataService.get_players
DataService_get_players(frame, positions, search_term, limit, offset, sort_by, sort_order) ==
    LET player_stats == {st \in PlayerStats(frame, TotalDrafts(frame)) :
                            /\ positions # <<>> => st.Position \in Range(positions)
                            /\ HasTerm(search_term) =>
                                  PolarsSearchMatches(st.player, search_term)}
        total_count == Cardinality(player_stats)
    IN  IF PolarsColumns(sort_by) = {} THEN {Raised}
        ELSE {Page(PlayerModels(page), total_count) :
                page \in Pages(player_stats, CHOOSE c \in PolarsColumns(sort_by) : TRUE,
                               sort_order, offset, limit)}

\* AnalyticsService.get_players: the DuckDB query; when its page has rows,
\* the timing comparison returns the value of either path.
AnalyticsService_get_players(positions, search_term, limit, offset, sort_by, sort_order) ==
    UNION {IF v = Raised \/ v.players = <<>> THEN {v}
           ELSE {v} \cup DataService_get_players(df, positions, search_term, limit,
                                                 offset, sort_by, sort_order) :
           v \in DuckDB_get_players(picks, positions, search_term, limit, offset,
                                    sort_by, sort_order)}

\* The k-th pick of a team in the players datasets: round 1, then late
\* rounds, whose pick numbers pass 127.
LateRound(k) == IF k = 1 THEN 1 ELSE 10 + k

\* The datasets of the players endpoint; team 101 drafts in a fixed order.
PlayerParquets ==
    {ParquetOf(FrameWith(ro, [k \in 1..MaxRound |-> LateRound(k)])) :
        ro \in {r \in [TeamIds -> Rosters(Players)] :
                    r[101][1] = "A.J. Brown" /\ r[101][2] = "AJ Dillon"}}

PositionFilters == {<<>>, <<"WR">>, <<"RB", "QB">>}

SearchTerms ==
    {None, Some(<<"b", "r", "o", "w", "n">>), Some(<<"A", "J">>),
     Some(<<"d", "'", "a">>), Some(<<".">>)}

\* schemas.py SortableColumn, SortOrder
SortableColumn == {"name", "position", "team", "draft_percentage", "avg_pick", "avg_round"}
SortOrder == {"asc", "desc"}

InitPlayers ==
    /\ picks \in PlayerParquets
    /\ df = initialize_data(picks)
    /\ metadata = initialize_metadata(df)
    /\ pc = "idle"
    /\ call = Loaded
    /\ result = <<>>

\* GET /api/players
RequestPlayers ==
    \E positions \in PositionFilters, search_term \in SearchTerms,
       limit \in 1..MaxLimit, offset \in 0..MaxOffset,
       sort_by \in SortableColumn, sort_order \in SortOrder :
        /\ Enter
        /\ call' = [op |-> "get_players", positions |-> positions,
                    search_term |-> search_term, limit |-> limit, offset |-> offset,
                    sort_by |-> sort_by, sort_order |-> sort_order]

GetPlayers ==
    Return("get_players",
           AnalyticsService_get_players(call.positions, call.search_term, call.limit,
                                        call.offset, call.sort_by, call.sort_order))

NextPlayers == RequestPlayers \/ GetPlayers \/ Delivered

SpecPlayers == InitPlayers /\ [][NextPlayers]_vars

(***************************************************************************)
(* The combination engine: what the returned frame is checked against.     *)
(***************************************************************************)
EngineOps == {"find_unique_player_combinations", "app_find_unique_player_combinations"}

\* An engine call has returned.
EngineReturned == pc = "returned" /\ call.op \in EngineOps

\* A pick of this round is in the round window of the call.  With n_rounds
\* None the stand-alone engine takes the entire draft; the package engine
\* compares round <= n_rounds, which no pick passes.
InWindow(round) ==
    IF call.n_rounds = None THEN call.op = "app_find_unique_player_combinations"
    ELSE round <= call.n_rounds[1]

\* The picks of a team inside the window, and their player names.
WindowPicks(team_id) ==
    {row \in Range(df) : row.team_id = team_id /\ InWindow(row.round)}

WindowRoster(team_id) == {row.player : row \in WindowPicks(team_id)}

\* The teams with a pick in the window whose window roster has every
\* required player.
Qualifying ==
    {t \in TeamIdsOf(df) :
        WindowPicks(t) # {} /\ Range(call.required_players) \subseteq WindowRoster(t)}

DraftSlotOf(team_id) == CHOOSE row \in Range(df) : row.team_id = team_id

\* C1: no two returned rows have the same set of player names, that is the
\* same sorted, '|'-joined signature.
C1_UniqueSignatures ==
    EngineReturned =>
        \A i, j \in DOMAIN result :
            i # j => /\ Range(result[i].players) # Range(result[j].players)
                     /\ StrJoin(SortStrings(result[i].players), "|")
                            # StrJoin(SortStrings(result[j].players), "|")

\* C1's case: two teams drafted the same players in different order, and
\* more than one row is returned.
C1_Witness ==
    /\ EngineReturned
    /\ Len(result) >= 2
    /\ \E t, u \in Qualifying :
           /\ t # u
           /\ WindowRoster(t) = WindowRoster(u)
           /\ \E i \in DOMAIN result : Range(result[i].players) = WindowRoster(t)
           /\ \E rt \in WindowPicks(t), ru \in WindowPicks(u) :
                  rt.round = ru.round /\ rt.player # ru.player

\* C2: with required players given, every returned row's players (the team's
\* picks with round <= n_rounds) contain every required player; a team that
\* drafted a required player only after round n_rounds is not returned.
C2_RequiredSuperset ==
    EngineReturned /\ call.required_players # <<>> =>
        \A i \in DOMAIN result : \A p \in Range(call.required_players) :
            /\ p \in Range(result[i].players)
            /\ \E row \in WindowPicks(result[i].team_id) : row.player = p

\* C2's case: a team is returned, and another team that has every required
\* player, one of them only after round n_rounds, is not.
C2_Witness ==
    /\ EngineReturned /\ call.required_players # <<>> /\ call.n_rounds # None
    /\ result # <<>>
    /\ \E t \in TeamIdsOf(df) :
           /\ \A p \in Range(call.required_players) :
                  \E row \in Range(df) : row.team_id = t /\ row.player = p
           /\ \E row \in Range(df) :
                  /\ row.team_id = t /\ row.player \in Range(call.required_players)
                  /\ row.round > call.n_rounds[1]
           /\ \A i \in DOMAIN result : result[i].team_id # t

C4_AscendingOrder ==
    EngineReturned =>
        \A i, j \in DOMAIN result : i < j => DraftSlotLess(result[i], result[j])

\* The frames the engine of the last call can return for its arguments.
EngineFrames ==
    IF call.op = "find_unique_player_combinations"
    THEN find_unique_player_combinations(df, call.n_rounds, call.required_players)
    ELSE app_find_unique_player_combinations(df, call.n_rounds, call.required_players)

\* C5: a call with the same dataset, n_rounds and required_players returns
\* the same rows in the same order, whatever order group_by and unique take:
\* what was returned is the only frame the call can return.
C5_SameFrameEveryCall ==
    EngineReturned => \A frame \in EngineFrames : frame = result

\* C6: with n_rounds None or at least the largest round of the dataset no
\* pick is removed by round: the rows are those computed over all picks.
C6_UnboundedIsNoFilter ==
    EngineReturned
    /\ (call.n_rounds = None \/ \A row \in Range(df) : row.round <= call.n_rounds[1]) =>
        \E frame \in ReturnedFrames(df, call.required_players) :
            Range(frame) = Range(result)

\* C7: when no team's round-window roster has all required players (an empty
\* dataset, a required player absent from it) the result is empty: no
\* partial match is returned.
C7_EmptyWhenNoMatch ==
    EngineReturned /\ Qualifying = {} => result = <<>>

\* C7's case: a required player is in no pick, another one is on a team's
\* window roster, and the call returned nothing.
C7_Witness ==
    /\ EngineReturned
    /\ result = <<>>
    /\ \E p \in Range(call.required_players) : \A row \in Range(df) : row.player # p
    /\ \E t \in TeamIdsOf(df) : Range(call.required_players) \cap WindowRoster(t) # {}

\* C8: a returned row's players are exactly the team's picks with
\* round <= n_rounds, each once, in ascending round order (not in name order).
C8_PlayersInDraftOrder ==
    EngineReturned =>
        \A i \in DOMAIN result :
            LET mine == WindowPicks(result[i].team_id)
                players == result[i].players
            IN  /\ Len(players) = Cardinality(mine)
                /\ \A k \in DOMAIN players :
                       \E row \in mine :
                           /\ row.player = players[k]
                           /\ Cardinality({r \in mine : r.round < row.round}) = k - 1

\* C8's case: a returned roster of several picks that is not in name order.
C8_Witness ==
    /\ EngineReturned
    /\ \E i \in DOMAIN result :
           /\ Len(result[i].players) >= 2
           /\ StrLess(result[i].players[2], result[i].players[1])

CombinationsReturned == pc = "returned" /\ call.op = "get_player_combinations"

\* C9: whatever the dataset, the required players, the number of rounds and
\* the limit, the DuckDB path and the Polars path of get_player_combinations
\* return one and the same value, which is the value the caller receives.
C9_PathsAgree ==
    CombinationsReturned =>
        \A v \in DuckDB_get_player_combinations(picks, call.required_players,
                                                call.n_rounds, call.limit)
                 \cup DataService_get_player_combinations(df, call.required_players,
                                                          call.n_rounds, call.limit) :
            v = result

PlayersReturned == pc = "returned" /\ call.op = "get_players"

\* C10: whatever the dataset, the position filter, the search term, the sort
\* key and order, the offset and the limit, the DuckDB path and the Polars
\* path of get_players return one and the same players and total_count,
\* which is the value the caller receives.
C10_PathsAgree ==
    PlayersReturned =>
        \A v \in DuckDB_get_players(picks, call.positions, call.search_term, call.limit,
                                    call.offset, call.sort_by, call.sort_order)
                 \cup DataService_get_players(df, call.positions, call.search_term,
                                              call.limit, call.offset, call.sort_by,
                                              call.sort_order) :
            v = result

\* C11: no two entries returned by the backend's get_player_combinations
\* have the same set of player names; teams with identical round-window
\* rosters are collapsed to one representative.
C11_BackendUniqueSignatures ==
    CombinationsReturned =>
        \A i, j \in DOMAIN result :
            i # j => Range(result[i].players) # Range(result[j].players)

\* The teams with a pick in the first n_rounds rounds of the backend call.
BackendWindowTeams == {row.team_id : row \in {r \in Range(df) : r.round <= call.n_rounds}}

\* C12: with an empty required_players list get_player_combinations applies
\* no player filter: the rosters of all teams are returned, up to the limit.
C12_EmptyRequiredReturnsAll ==
    CombinationsReturned /\ call.required_players = <<>> =>
        Len(result) = Min(call.limit, Cardinality(BackendWindowTeams))

\* The picks of a returned player, each read as normalised: v + 256 for a
\* negative stored v.
NormalisedPicksOf(player) ==
    {NormalisePick(row.pick) : row \in {r \in Range(picks) :
        r.player = player.name /\ r.Position = player.position /\ r.Team = player.team}}

\* C13: every pick number the player summary aggregates is the normalised
\* value: min_pick and max_pick are the least and greatest normalised pick
\* of the player, avg_pick lies between them, and none is negative.
C13_AggregatesNormalisedPicks ==
    PlayersReturned /\ result # Raised =>
        \A i \in DOMAIN result.players :
            LET player == result.players[i]
                seen == NormalisedPicksOf(player)
            IN  /\ player.min_pick \in seen /\ \A v \in seen : player.min_pick <= v
                /\ player.max_pick \in seen /\ \A v \in seen : player.max_pick >= v
                /\ player.min_pick >= 0
                /\ ~FractionLess(player.avg_pick, Fraction(player.min_pick, 1))
                /\ ~FractionLess(Fraction(player.max_pick, 1), player.avg_pick)

\* Text lowercased, periods and apostrophes removed.
SearchNormalised(chars) == RemoveChars(to_lowercase(chars), {".", "'"})

\* The (player, Position, Team) groups of the dataset that pass the position
\* filter of the call and whose normalised name contains the normalised term.
SearchMatchingGroups ==
    {key \in {<<row.player, row.Position, row.Team>> : row \in Range(df)} :
        /\ call.positions # <<>> => key[2] \in Range(call.positions)
        /\ Contains(SearchNormalised(Chars(key[1])), SearchNormalised(call.search_term[1]))}

\* C14: a player group matches a search term exactly when the normalised
\* term is a substring of the normalised name: every returned player is such
\* a group, and total_count counts all of them.
C14_SearchNormalisesTermAndName ==
    PlayersReturned /\ result # Raised /\ HasTerm(call.search_term) =>
        /\ \A i \in DOMAIN result.players :
               <<result.players[i].name, result.players[i].position,
                 result.players[i].team>> \in SearchMatchingGroups
        /\ result.total_count = Cardinality(SearchMatchingGroups)

\* Player a comes strictly before player b by the sort key (avg_round is
\* no field of a returned player).
PlayerKeyLess(sort_by, a, b) ==
    CASE sort_by = "name" -> StrLess(a.name, b.name)
      [] sort_by = "position" -> StrLess(a.position, b.position)
      [] sort_by = "team" -> StrLess(a.team, b.team)
      [] sort_by = "draft_percentage" -> FractionLess(a.draft_percentage, b.draft_percentage)
      [] sort_by = "avg_pick" -> FractionLess(a.avg_pick, b.avg_pick)
      [] OTHER -> FALSE

\* C15: for each of the six sort keys and each direction get_players
\* succeeds, and the page is ordered by that key in that direction.
C15_EverySortKeySucceeds ==
    PlayersReturned =>
        /\ result # Raised
        /\ \A i, j \in DOMAIN result.players : i < j =>
               IF call.sort_order = "desc"
               THEN ~PlayerKeyLess(call.sort_by, result.players[i], result.players[j])
               ELSE ~PlayerKeyLess(call.sort_by, result.players[j], result.players[i])

\* The (name, position, team) keys of a returned page.
PageKeys(page) ==
    {<<page.players[i].name, page.players[i].position, page.players[i].team>> :
        i \in DOMAIN page.players}

\* The values a call for the first page (offset 0, the same limit, filters
\* and sort) can return.
FirstPages ==
    AnalyticsService_get_players(call.positions, call.search_term, call.limit, 0,
                                 call.sort_by, call.sort_order)

\* C16: the page for offset=k, limit=k shares no (name, position, team) key
\* with the page for offset=0, limit=k, whatever the order among players
\* equal on the sort key and whichever backend serves each call.
C16_PagesDoNotOverlap ==
    PlayersReturned /\ call.offset = call.limit /\ result # Raised =>
        \A first \in FirstPages :
            first # Raised => PageKeys(first) \cap PageKeys(result) = {}

\* The (player, position, team) groups that match the position filter and,
\* when a search term is given, the search as C14 states it.
MatchingGroups ==
    {key \in {<<row.player, row.Position, row.Team>> : row \in Range(df)} :
        /\ call.positions # <<>> => key[2] \in Range(call.positions)
        /\ HasTerm(call.search_term) =>
               Contains(SearchNormalised(Chars(key[1])),
                        SearchNormalised(call.search_term[1]))}

\* The values the same request can return for any offset and limit.
AnyPage ==
    UNION {AnalyticsService_get_players(call.positions, call.search_term, limit, offset,
                                        call.sort_by, call.sort_order) :
               limit \in 1..MaxLimit, offset \in 0..MaxOffset}

\* C17: total_count is the number of (player, position, team) groups that
\* match the filters, is the same for every offset and limit, and is at
\* least the number of players on the page.
C17_TotalCountIsFilterCount ==
    PlayersReturned /\ result # Raised =>
        /\ result.total_count = Cardinality(MatchingGroups)
        /\ \A other \in AnyPage :
               other # Raised => other.total_count = result.total_count
        /\ result.total_count >= Len(result.players)

(***************************************************************************)
(* Position statistics: DataService.get_position_stats and                 *)
(* DataService.get_position_draft_counts_by_round.                         *)
(***************************************************************************)
\* schemas.py Position, AggregationType
Position == {"QB", "RB", "WR", "TE", "K", "DST"}
AggregationType == {"mean", "median"}

\* The ascending sequence of a set of integers: DataFrame.sort on an
\* integer column without duplicates.
SortedInts(S) ==
    CHOOSE s \in Orderings(S) : \A i, j \in DOMAIN s : i < j => s[i] < s[j]

RECURSIVE SumOver(_, _)
SumOver(f, S) ==
    IF S = {} THEN 0 ELSE LET x == CHOOSE y \in S : TRUE IN f[x] + SumOver(f, S \ {x})

\* Expr.mean() of the integer values f[x], x in S (S not empty)
MeanOf(f, S) == Fraction(SumOver(f, S), Cardinality(S))

\* Expr.median() of the integer values f[x], x in S (S not empty): the
\* middle value, or the mean of the two middle values.
MedianOf(f, S) ==
    LET n == Cardinality(S)
        \* the k-th value in ascending order
        Kth(k) == CHOOSE v \in {f[x] : x \in S} :
                      /\ Cardinality({x \in S : f[x] < v}) < k
                      /\ k <= Cardinality({x \in S : f[x] <= v})
    IN  IF n % 2 = 1 THEN Fraction(Kth((n + 1) \div 2), 1)
        ELSE Fraction(Kth(n \div 2) + Kth((n \div 2) + 1), 2)

\* df.group_by(["draft", "Position"]).agg(pl.len()): one count per draft
\* and position that has a pick.
PlayersPerDraft(frame) ==
    [key \in {<<frame[i].draft, frame[i].Position>> : i \in DOMAIN frame} |->
        Cardinality({i \in DOMAIN frame :
                        frame[i].draft = key[1] /\ frame[i].Position = key[2]})]

\* players_per_draft.group_by("Position").agg(median of position_count)
MedianStats(frame, position) ==
    LET players_per_draft == PlayersPerDraft(frame)
    IN  MedianOf(players_per_draft,
                 {key \in DOMAIN players_per_draft : key[2] = position})

\* One row of other_stats joined with median_stats, as a PositionStats.
PositionStatsRow(frame, position) ==
    [position |-> position,
     total_drafted |-> Cardinality({i \in DOMAIN frame : frame[i].Position = position}),
     unique_players |-> Cardinality({frame[i].player :
                                        i \in {k \in DOMAIN frame : frame[k].Position = position}}),
     median_draft_count |-> MedianStats(frame, position)]

position_order == <<"QB", "RB", "WR", "TE">>

\* list.index(x): the first index holding x; raises ValueError when absent.
IndexIn(list, x) == CHOOSE i \in DOMAIN list : list[i] = x /\ \A k \in 1..(i - 1) : list[k] # x

ValueError == [error |-> "is not in list"]

\* position_stats_list.sort(key=position_order.index)
SortByPositionOrder(rows) ==
    StableSort(rows, [i, j \in DOMAIN rows |->
                        IndexIn(position_order, rows[i].position)
                            < IndexIn(position_order, rows[j].position)])

\* DataService.get_position_stats: the rows come out of the group_by and the
\* join in any order, the list sort calls position_order.index on each.
DataService_get_position_stats(frame) ==
    LET positions == {frame[i].Position : i \in DOMAIN frame}
    IN  IF \E p \in positions : p \notin Range(position_order)
        THEN {ValueError}
        ELSE {SortByPositionOrder([i \in DOMAIN o |-> PositionStatsRow(frame, o[i])]) :
                 o \in Orderings(positions)}

\* position_df.group_by(["round", "draft"]).agg(pl.len())
CountsPerDraft(frame, position) ==
    [key \in {<<frame[i].round, frame[i].draft>> :
                 i \in {k \in DOMAIN frame : frame[k].Position = position}} |->
        Cardinality({i \in DOMAIN frame : /\ frame[i].Position = position
                                          /\ frame[i].round = key[1]
                                          /\ frame[i].draft = key[2]})]

\* Mutant of GridCounts: the counts without the grid of all rounds and all
\* drafts, so a round and draft without a pick of the position has no row.
GridCounts_NoGrid(frame, position) == CountsPerDraft(frame, position)

\* grid.join(counts_per_draft, how="left") with count.fill_null(0), the grid
\* being all rounds crossed with all drafts of the whole frame.
GridCounts(frame, position) ==
    LET counts_per_draft == CountsPerDraft(frame, position)
        all_rounds == {frame[i].round : i \in DOMAIN frame}
        all_drafts == {frame[i].draft : i \in DOMAIN frame}
    IN  [key \in all_rounds \X all_drafts |->
            IF key \in DOMAIN counts_per_draft THEN counts_per_draft[key] ELSE 0]

\* DataService.get_position_draft_counts_by_round
DataService_get_position_draft_counts_by_round(frame, position, aggregation) ==
    LET total_drafts == Cardinality({frame[i].team_id : i \in DOMAIN frame})
        counts == GridCounts(frame, position)
        rounds == SortedInts({key[1] : key \in DOMAIN counts})
        Group(round) == {key \in DOMAIN counts : key[1] = round}
    IN  IF total_drafts = 0 THEN {<<>>}
        ELSE {[i \in DOMAIN rounds |->
                 [round |-> rounds[i],
                  count |-> IF aggregation = "mean"
                            THEN MeanOf(counts, Group(rounds[i]))
                            ELSE MedianOf(counts, Group(rounds[i]))]]}

\* position_counts pivoted on Position with fill_null(0), and the columns of
\* the Position enum that the pivot did not produce added as 0: the count of
\* every position for one (draft, team_id).
RosterVector(frame, draft, team_id) ==
    [p \in Position |->
        Cardinality({i \in DOMAIN frame : /\ frame[i].draft = draft
                                          /\ frame[i].team_id = team_id
                                          /\ frame[i].Position = p})]

\* roster_df.group_by(position_columns).agg(len, len / count * 100): one row
\* per distinct vector of position counts, under the column names of the
\* frame.
RosterCountRows(frame) ==
    LET teams == {<<frame[i].draft, frame[i].team_id>> : i \in DOMAIN frame}
        vectors == {RosterVector(frame, t[1], t[2]) : t \in teams}
    IN  {[QB |-> v["QB"], RB |-> v["RB"], WR |-> v["WR"], TE |-> v["TE"],
          K |-> v["K"], DST |-> v["DST"],
          count |-> Cardinality({t \in teams : RosterVector(frame, t[1], t[2]) = v}),
          frequency |-> 100] : v \in vectors}

ValidationError == [error |-> "field required"]

\* RosterConstruction(**row): draft_id, team_id and position_counts are
\* required fields of the model.
RosterConstruction(row) ==
    IF {"draft_id", "team_id", "position_counts"} \subseteq DOMAIN row
    THEN [draft_id |-> row.draft_id, team_id |-> row.team_id,
          position_counts |-> row.position_counts]
    ELSE ValidationError

\* .sort('count', descending=True); rows of equal count in any order
SortedByCountDesc(rows) ==
    {o \in Orderings(rows) : \A i, j \in DOMAIN o : i < j => o[i].count >= o[j].count}

\* DataService.get_roster_construction: the list comprehension raises as
\* soon as one row cannot be built.
DataService_get_roster_construction(frame) ==
    {IF \E i \in DOMAIN o : RosterConstruction(o[i]) = ValidationError
     THEN ValidationError
     ELSE [i \in DOMAIN o |-> RosterConstruction(o[i])] :
        o \in SortedByCountDesc(RosterCountRows(frame))}

\* The datasets of the position endpoints: team 101 drafts the first
\* players of a fixed list, the other teams any roster; and the empty file.
FixedRoster == <<"Jalen Hurts", "AJ Dillon", "A.J. Brown", "D'Andre Swift", "Jake Elliott">>

PositionParquets ==
    {ParquetOf(FrameOf(ro)) :
        ro \in {r \in [TeamIds -> Rosters(Range(FixedRoster))] :
                    \A k \in 1..MaxRound : r[101][k] = FixedRoster[k]}} \cup {<<>>}

InitPositions ==
    /\ picks \in PositionParquets
    /\ df = initialize_data(picks)
    /\ metadata = initialize_metadata(df)
    /\ pc = "idle"
    /\ call = Loaded
    /\ result = <<>>

\* GET /api/positions/stats
RequestPositionStats ==
    /\ Enter
    /\ call' = [op |-> "get_position_stats"]

GetPositionStats ==
    Return("get_position_stats", DataService_get_position_stats(df))

\* GET /api/positions/stats/{position}/by_round
RequestDraftCountsByRound ==
    \E position \in Position, aggregation \in AggregationType :
        /\ Enter
        /\ call' = [op |-> "get_position_draft_counts_by_round",
                    position |-> position, aggregation |-> aggregation]

GetDraftCountsByRound ==
    Return("get_position_draft_counts_by_round",
           DataService_get_position_draft_counts_by_round(df, call.position, call.aggregation))

\* GET /api/positions/roster-construction
RequestRosterConstruction ==
    /\ Enter
    /\ call' = [op |-> "get_roster_construction"]

GetRosterConstruction ==
    Return("get_roster_construction", DataService_get_roster_construction(df))

NextPositions ==
    \/ RequestPositionStats
    \/ GetPositionStats
    \/ RequestDraftCountsByRound
    \/ GetDraftCountsByRound
    \/ RequestRosterConstruction
    \/ GetRosterConstruction
    \/ Delivered

SpecPositions == InitPositions /\ [][NextPositions]_vars

(***************************************************************************)
(* Draft-slot correlation: scripts/draft_slot_correlation.py and the       *)
(* endpoint GET /api/analytics/draft-slot.                                 *)
(***************************************************************************)
\* df.select(["draft", "team_id", "draft_position", "player"]).unique()
UniqueTeamPlayers(frame) ==
    {<<frame[i].draft, frame[i].team_id, frame[i].draft_position, frame[i].player>> :
        i \in DOMAIN frame}

\* The score column for a metric: the branch for ratio is the else branch.
Score(metric, slot_cnt, p_slot, p_overall) ==
    CASE metric = "count" -> Fraction(slot_cnt, 1)
      [] metric = "percent" -> p_slot
      [] OTHER -> Fraction(p_slot.num * p_overall.den, p_slot.den * p_overall.num)

\* overall joined with slot_df on player (inner), filtered by min_teams,
\* with p_slot, p_overall and score.
CorrelationRows(frame, slot, metric, min_teams) ==
    LET unique_df == UniqueTeamPlayers(frame)
        in_slot == {u \in unique_df : u[3] = slot}
        overall(player) == Cardinality({u \in unique_df : u[4] = player})
        slot_cnt(player) == Cardinality({u \in in_slot : u[4] = player})
        total_overall == Cardinality(unique_df)
        total_slot == Cardinality(in_slot)
        Row(player) ==
            LET p_slot == Fraction(slot_cnt(player), total_slot)
                p_overall == Fraction(overall(player), total_overall)
            IN  [player |-> player, slot |-> slot_cnt(player), overall |-> overall(player),
                 p_slot |-> p_slot, p_overall |-> p_overall,
                 score |-> Score(metric, slot_cnt(player), p_slot, p_overall)]
    IN  {Row(player) : player \in {u[4] : u \in {v \in in_slot : slot_cnt(v[4]) >= min_teams}}}

\* compute_correlation: the frame of the rows sorted by score descending
\* (rows of equal score in any order), cut to top_n.
compute_correlation(frame, slot, metric, min_teams, top_n) ==
    {[rows |-> Head_n(o, top_n)] :
        o \in {q \in Orderings(CorrelationRows(frame, slot, metric, min_teams)) :
                  \A i, j \in DOMAIN q : i < j => ~FractionLess(q[i].score, q[j].score)}}

\* main: an empty file ends the script with exit status 1.
ExitEmpty == [exit |-> "Empty dataframe"]

draft_slot_correlation_main(frame, slot, metric, min_teams, top_n) ==
    IF frame = <<>> THEN {ExitEmpty}
    ELSE compute_correlation(frame, slot, metric, min_teams, top_n)

\* The metrics the script and the endpoint name, and one they do not.
Metrics == {"count", "percent", "ratio"}
MetricInputs == Metrics \cup {"invalid"}

\* The methods class AnalyticsService defines.
AnalyticsServiceMethods ==
    {"get_players", "get_player_combinations", "get_heat_map", "get_stacks", "get_adp_drift"}

Unprocessable == [status |-> 422]
InternalError(detail) == [status |-> 500, detail |-> detail]

\* GET /api/analytics/draft-slot: the query regex rejects other metrics; the
\* handler calls analytics_service.get_draft_slot_correlation, an attribute
\* the service does not have, and turns the exception into a 500 response.
get_draft_slot(slot, metric, top_n) ==
    IF metric \notin Metrics THEN {Unprocessable}
    ELSE IF "get_draft_slot_correlation" \notin AnalyticsServiceMethods
         THEN {InternalError("Failed to compute draft slot correlation")}
         ELSE {}

SlotInputs == {1, 2, 3}
MinTeamsInputs == {1, 2}

DraftSlotParquets == {ParquetOf(frame) : frame \in DashDatasets}

InitDraftSlot ==
    /\ picks \in DraftSlotParquets
    /\ df = initialize_data(picks)
    /\ metadata = initialize_metadata(df)
    /\ pc = "idle"
    /\ call = Loaded
    /\ result = <<>>

\* python draft_slot_correlation.py filepath draft_slot --metric --min-teams --top-n
RequestCorrelation ==
    \E slot \in SlotInputs, metric \in MetricInputs, min_teams \in MinTeamsInputs,
       top_n \in 1..MaxLimit :
        /\ Enter
        /\ call' = [op |-> "compute_correlation", slot |-> slot, metric |-> metric,
                    min_teams |-> min_teams, top_n |-> top_n]

ComputeCorrelation ==
    Return("compute_correlation",
           draft_slot_correlation_main(picks, call.slot, call.metric, call.min_teams,
                                       call.top_n))

RequestDraftSlot ==
    \E slot \in SlotInputs, metric \in MetricInputs, top_n \in 1..MaxLimit :
        /\ Enter
        /\ call' = [op |-> "get_draft_slot", slot |-> slot, metric |-> metric,
                    top_n |-> top_n]

GetDraftSlot ==
    Return("get_draft_slot", get_draft_slot(call.slot, call.metric, call.top_n))

NextDraftSlot ==
    \/ RequestCorrelation
    \/ ComputeCorrelation
    \/ RequestDraftSlot
    \/ GetDraftSlot
    \/ Delivered

SpecDraftSlot == InitDraftSlot /\ [][NextDraftSlot]_vars

(***************************************************************************)
(* The position endpoints: what the returned statistics are checked        *)
(* against.                                                                *)
(***************************************************************************)
PositionStatsReturned == pc = "returned" /\ call.op = "get_position_stats"

DraftCountsReturned == pc = "returned" /\ call.op = "get_position_draft_counts_by_round"

DatasetTeams == {df[i].team_id : i \in DOMAIN df}
DatasetDrafts == {df[i].draft : i \in DOMAIN df}
DatasetRounds == {df[i].round : i \in DOMAIN df}
DatasetPositions == {df[i].Position : i \in DOMAIN df}

\* The number of players of a position each team of the dataset drafted.
PerTeamCount(position) ==
    [t \in DatasetTeams |->
        Cardinality({i \in DOMAIN df : df[i].team_id = t /\ df[i].Position = position})]

\* C18: median_draft_count of a position is the median, over all teams of
\* all drafts, of the number of players of that position the team drafted.
C18_MedianIsPerTeam ==
    PositionStatsReturned /\ result # ValueError =>
        \A i \in DOMAIN result :
            result[i].median_draft_count
                = MedianOf(PerTeamCount(result[i].position), DatasetTeams)

\* The place of a position in the order QB, RB, WR, TE, then K and DST.
PositionRank(position) ==
    IF position \in Range(position_order) THEN IndexIn(position_order, position) ELSE 5

\* C19: get_position_stats succeeds on every dataset, K and DST picks
\* included, and returns every position of the dataset once, in the order
\* QB, RB, WR, TE with K and DST after the four.
C19_PositionOrderWithKickers ==
    PositionStatsReturned =>
        /\ result # ValueError
        /\ {result[i].position : i \in DOMAIN result} = DatasetPositions
        /\ \A i, j \in DOMAIN result :
               i < j => /\ result[i].position # result[j].position
                        /\ PositionRank(result[i].position) <= PositionRank(result[j].position)

RECURSIVE SumCounts(_)
SumCounts(rows) ==
    IF rows = <<>> THEN Fraction(0, 1)
    ELSE LET rest == SumCounts(Tail(rows))
         IN  Fraction(rows[1].count.num * rest.den + rest.num * rows[1].count.den,
                      rows[1].count.den * rest.den)

PicksOf(position, round) ==
    {i \in DOMAIN df : df[i].Position = position /\ df[i].round = round}

\* C20: with mean aggregation there is one row for every round of the
\* dataset, in ascending order, with count 0 for a round in which the
\* position was never picked, and the means summed over the rounds and
\* multiplied by the number of distinct drafts give the number of picks of
\* the position.
C20_MeanRowsCoverRoundsAndSumToPicks ==
    DraftCountsReturned /\ call.aggregation = "mean" =>
        /\ Len(result) = Cardinality(DatasetRounds)
        /\ {result[i].round : i \in DOMAIN result} = DatasetRounds
        /\ \A i, j \in DOMAIN result : i < j => result[i].round < result[j].round
        /\ \A i \in DOMAIN result :
               PicksOf(call.position, result[i].round) = {} => result[i].count.num = 0
        /\ SumCounts(result).num * Cardinality(DatasetDrafts)
               = Cardinality({i \in DOMAIN df : df[i].Position = call.position})
                     * SumCounts(result).den

\* A mean call has returned for a position that was picked, with a round in
\* which it was never picked and a round whose mean is not a whole number.
C20_Witness ==
    /\ DraftCountsReturned
    /\ call.aggregation = "mean"
    /\ Cardinality(DatasetDrafts) > 1
    /\ \E i \in DOMAIN result :
           PicksOf(call.position, result[i].round) = {} /\ result[i].count.num = 0
    /\ \E i \in DOMAIN result : result[i].count.den > 1

RosterConstructionReturned == pc = "returned" /\ call.op = "get_roster_construction"

\* C21: on every non-empty dataset get_roster_construction succeeds and
\* returns one entry per (draft_id, team_id), each with draft_id, team_id and
\* a position_counts mapping that holds every position of the Position enum,
\* 0 for a position the team did not draft.
C21_RosterEntryPerTeam ==
    RosterConstructionReturned /\ df # <<>> =>
        /\ result # ValidationError
        /\ {<<result[i].draft_id, result[i].team_id>> : i \in DOMAIN result}
               = {<<df[k].draft, df[k].team_id>> : k \in DOMAIN df}
        /\ Len(result) = Cardinality(DatasetTeams)
        /\ \A i \in DOMAIN result :
               result[i].position_counts
                   = RosterVector(df, result[i].draft_id, result[i].team_id)

(***************************************************************************)
(* Draft-slot correlation: what the returned rows are checked against.     *)
(***************************************************************************)
CorrelationReturned == pc = "returned" /\ call.op = "compute_correlation"

DraftSlotReturned == pc = "returned" /\ call.op = "get_draft_slot"

\* An invalid-input outcome: an error, no rows.
InvalidInput(outcome) == outcome = [error |-> "ValueError"] \/ outcome = Unprocessable

\* C22: a draft-slot correlation call whose metric is not count, percent or
\* ratio ends with an invalid-input error, and no score is computed for it.
C22_UnknownMetricRejected ==
    (CorrelationReturned \/ DraftSlotReturned) /\ call.metric \notin Metrics /\ picks # <<>> =>
        InvalidInput(result)

\* The teams of the file, and those drafting from a slot.
FileTeams == {picks[i].team_id : i \in DOMAIN picks}
SlotTeams(slot) == {picks[i].team_id : i \in {k \in DOMAIN picks : picks[k].draft_position = slot}}
TeamsDrafting(player, teams) ==
    {picks[i].team_id : i \in {k \in DOMAIN picks : picks[k].player = player
                                                    /\ picks[k].team_id \in teams}}

\* C23: p_slot is the number of teams of the slot that drafted the player
\* over the number of distinct teams of the slot, p_overall the number of
\* teams that drafted the player over the number of distinct teams of the
\* dataset, and both are at most 1.
C23_SharesAreOverTeams ==
    CorrelationReturned /\ result # ExitEmpty =>
        \A i \in DOMAIN result.rows :
            LET row == result.rows[i]
                in_slot == Cardinality(TeamsDrafting(row.player, SlotTeams(call.slot)))
                overall == Cardinality(TeamsDrafting(row.player, FileTeams))
            IN  /\ row.slot = in_slot
                /\ row.overall = overall
                /\ row.p_slot = Fraction(in_slot, Cardinality(SlotTeams(call.slot)))
                /\ row.p_overall = Fraction(overall, Cardinality(FileTeams))
                /\ row.p_slot.num <= row.p_slot.den
                /\ row.p_overall.num <= row.p_overall.den

(***************************************************************************)
(* The DuckDB analytics: AnalyticsService.get_heat_map, get_stacks and     *)
(* get_adp_drift over the view picks, and their endpoints.                 *)
(***************************************************************************)
\* All sequences that hold every element of a set once: the orders in which
\* a query without ORDER BY can emit its rows.
RECURSIVE Arrangements(_)
Arrangements(S) ==
    IF S = {} THEN {<<>>}
    ELSE UNION {{<<x>> \o rest : rest \in Arrangements(S \ {x})} : x \in S}

\* The frame of a query: its rows.
Frame(rows) == [rows |-> rows]

\* SELECT round, Position, COUNT(*) ... GROUP BY round, Position
\* ORDER BY round, Position
AnalyticsService_get_heat_map(table) ==
    LET groups == {<<table[i].round, table[i].Position>> : i \in DOMAIN table}
        Cell(g) == [round |-> g[1], Position |-> g[2],
                    count |-> Cardinality({i \in DOMAIN table :
                                  table[i].round = g[1] /\ table[i].Position = g[2]})]
        Before(a, b) == a[1] < b[1] \/ (a[1] = b[1] /\ StrLess(a[2], b[2]))
        Place(k) == CHOOSE g \in groups : Cardinality({h \in groups : Before(h, g)}) = k - 1
    IN  {Frame([k \in 1..Cardinality(groups) |-> Cell(Place(k))])}

\* Mutant of StackJoin: the join without the condition on the NFL team.
StackJoin_AnyNflTeam(q, w) == q.draft = w.draft /\ q.team_id = w.team_id

\* ON q.draft = w.draft AND q.team_id = w.team_id AND q.nfl_team = w.nfl_team
StackJoin(q, w) == q.draft = w.draft /\ q.team_id = w.team_id /\ q.Team = w.Team

\* get_stacks: early, qbs, wrte, combos, ORDER BY draft, team_id, LIMIT.
AnalyticsService_get_stacks(table, n_rounds, limit) ==
    LET early == {i \in DOMAIN table : table[i].round <= n_rounds}
        qbs == {i \in early : table[i].Position = "QB"}
        wrte == {i \in early : table[i].Position \in {"WR", "TE"}}
        combos == {c \in qbs \X wrte : StackJoin(table[c[1]], table[c[2]])}
        Combo(c) == [draft |-> table[c[1]].draft, team_id |-> table[c[1]].team_id,
                     nfl_team |-> table[c[1]].Team, qb |-> table[c[1]].player,
                     receiver |-> table[c[2]].player, round_qb |-> table[c[1]].round,
                     round_receiver |-> table[c[2]].round]
        Before(a, b) == \/ table[a[1]].draft < table[b[1]].draft
                        \/ /\ table[a[1]].draft = table[b[1]].draft
                           /\ table[a[1]].team_id < table[b[1]].team_id
    IN  {Frame(Head_n([i \in DOMAIN o |-> Combo(o[i])], limit)) :
            o \in {q \in Arrangements(combos) :
                      \A i, j \in DOMAIN q : i < j => ~Before(q[j], q[i])}}

\* SELECT median(draft) FROM picks, through int(): the middle value of the
\* draft column, or the mean of the two middle values cut to an integer.
MedianDraft(table) ==
    LET m == MedianOf([i \in DOMAIN table |-> table[i].draft], DOMAIN table)
    IN  m.num \div m.den

\* SELECT player, Position, AVG(pick) ... WHERE draft {cond} GROUP BY player, Position
AvgPickBy(table, rows) ==
    [g \in {<<table[i].player, table[i].Position>> : i \in rows} |->
        LET of_g == {i \in rows : table[i].player = g[1] /\ table[i].Position = g[2]}
        IN  Fraction(SumOver([i \in of_g |-> table[i].pick], of_g), Cardinality(of_g))]

FractionMinus(a, b) == Fraction(a.num * b.den - b.num * a.den, a.den * b.den)

TypeError == [error |-> "int() argument must be a number, not NoneType"]

\* get_adp_drift: the two halves joined on player and Position, with the
\* drift, sorted by drift descending; int(None) raises on an empty view.
AnalyticsService_get_adp_drift(table) ==
    IF table = <<>> THEN {TypeError}
    ELSE
    LET mid == MedianDraft(table)
        early_df == AvgPickBy(table, {i \in DOMAIN table : table[i].draft <= mid})
        late_df == AvgPickBy(table, {i \in DOMAIN table : table[i].draft > mid})
        Merged(g) == [player |-> g[1], Position |-> g[2],
                      avg_pick_early |-> early_df[g], avg_pick_late |-> late_df[g],
                      drift |-> FractionMinus(late_df[g], early_df[g])]
        merged == {Merged(g) : g \in DOMAIN early_df \cap DOMAIN late_df}
    IN  {Frame(o) : o \in {q \in Arrangements(merged) :
                              \A i, j \in DOMAIN q : i < j =>
                                  ~FractionLess(q[i].drift, q[j].drift)}}

\* A pydantic model built from a row with Model(**row): every required
\* field must be a key of the row, other keys are ignored.
BuildModel(required, row) ==
    IF required \subseteq DOMAIN row THEN [f \in required |-> row[f]] ELSE ValidationError

\* schemas.py HeatMapCell, StackEntry, DriftEntry
HeatMapCell(row) == BuildModel({"round", "position", "count"}, row)

StackEntry(row) ==
    BuildModel({"draft_id", "team_id", "nfl_team", "qb", "receiver", "round_qb",
                "round_receiver"}, row)

DriftEntry(row) ==
    BuildModel({"name", "position", "avg_pick_early", "avg_pick_late", "drift"}, row)

RECURSIVE SumCount(_)
SumCount(cells) == IF cells = <<>> THEN 0 ELSE cells[1].count + SumCount(Tail(cells))

\* GET /api/analytics/heat-map
api_get_heat_map(table) ==
    {IF \E i \in DOMAIN f.rows : HeatMapCell(f.rows[i]) = ValidationError
     THEN InternalError("Failed to compute heat map")
     ELSE LET cells == [i \in DOMAIN f.rows |-> HeatMapCell(f.rows[i])]
          IN  [status |-> 200, cells |-> cells, total_picks |-> SumCount(cells)] :
        f \in AnalyticsService_get_heat_map(table)}

\* GET /api/analytics/stacks
api_get_stacks(table, n_rounds, limit) ==
    {IF \E i \in DOMAIN f.rows : StackEntry(f.rows[i]) = ValidationError
     THEN InternalError("Failed to compute stacks")
     ELSE [status |-> 200, stacks |-> [i \in DOMAIN f.rows |-> StackEntry(f.rows[i])],
           total_stacks |-> Len(f.rows)] :
        f \in AnalyticsService_get_stacks(table, n_rounds, limit)}

\* GET /api/analytics/drift
api_get_adp_drift(table, limit) ==
    {IF f = TypeError THEN InternalError("Failed to compute ADP drift")
     ELSE LET rows == Head_n(f.rows, limit)
          IN  IF \E i \in DOMAIN rows : DriftEntry(rows[i]) = ValidationError
              THEN InternalError("Failed to compute ADP drift")
              ELSE [status |-> 200, drifts |-> [i \in DOMAIN rows |-> DriftEntry(rows[i])]] :
        f \in AnalyticsService_get_adp_drift(table)}

\* The files of the analytics endpoints: team 101 drafts the first players
\* of a fixed list, the other teams any roster of them, in round 1 and in
\* late rounds; and the empty file.
FixedStack == <<"Jalen Hurts", "A.J. Brown", "Dallas Goedert", "DJ Moore">>

AnalyticsParquets ==
    {ParquetOf(FrameWith(ro, [k \in 1..MaxRound |-> LateRound(k)])) :
        ro \in {r \in [TeamIds -> Rosters(Range(FixedStack))] :
                    \A k \in 1..MaxRound : r[101][k] = FixedStack[k]}} \cup {<<>>}

StackRounds == {LateRound(k) : k \in 1..MaxRound}

InitAnalytics ==
    /\ picks \in AnalyticsParquets
    /\ df = initialize_data(picks)
    /\ metadata = initialize_metadata(df)
    /\ pc = "idle"
    /\ call = Loaded
    /\ result = <<>>

\* Calls of the service methods.
CallHeatMap ==
    /\ Enter
    /\ call' = [op |-> "get_heat_map"]

HeatMapReturns == Return("get_heat_map", AnalyticsService_get_heat_map(picks))

CallStacks ==
    \E n_rounds \in StackRounds, limit \in 1..MaxLimit :
        /\ Enter
        /\ call' = [op |-> "get_stacks", n_rounds |-> n_rounds, limit |-> limit]

StacksReturns ==
    Return("get_stacks", AnalyticsService_get_stacks(picks, call.n_rounds, call.limit))

CallAdpDrift ==
    /\ Enter
    /\ call' = [op |-> "get_adp_drift"]

AdpDriftReturns == Return("get_adp_drift", AnalyticsService_get_adp_drift(picks))

\* Requests to the endpoints.
RequestHeatMap ==
    /\ Enter
    /\ call' = [op |-> "GET /analytics/heat-map"]

GetHeatMap == Return("GET /analytics/heat-map", api_get_heat_map(picks))

RequestStacks ==
    \E n_rounds \in StackRounds, limit \in 1..MaxLimit :
        /\ Enter
        /\ call' = [op |-> "GET /analytics/stacks", n_rounds |-> n_rounds, limit |-> limit]

GetStacks ==
    Return("GET /analytics/stacks", api_get_stacks(picks, call.n_rounds, call.limit))

RequestAdpDrift ==
    \E limit \in 1..MaxLimit :
        /\ Enter
        /\ call' = [op |-> "GET /analytics/drift", limit |-> limit]

GetAdpDrift == Return("GET /analytics/drift", api_get_adp_drift(picks, call.limit))

NextAnalytics ==
    \/ CallHeatMap
    \/ HeatMapReturns
    \/ CallStacks
    \/ StacksReturns
    \/ CallAdpDrift
    \/ AdpDriftReturns
    \/ RequestHeatMap
    \/ GetHeatMap
    \/ RequestStacks
    \/ GetStacks
    \/ RequestAdpDrift
    \/ GetAdpDrift
    \/ Delivered

SpecAnalytics == InitAnalytics /\ [][NextAnalytics]_vars

(***************************************************************************)
(* The analytics: what the returned rows are checked against.              *)
(***************************************************************************)
AdpDriftReturned == pc = "returned" /\ call.op = "get_adp_drift"

\* The median draft id of the file, and its two halves.
MedianDraftId == MedianOf([i \in DOMAIN picks |-> picks[i].draft], DOMAIN picks)
EarlyDrafts == {d \in {picks[i].draft : i \in DOMAIN picks} :
                   ~FractionLess(MedianDraftId, Fraction(d, 1))}
LateDrafts == {picks[i].draft : i \in DOMAIN picks} \ EarlyDrafts

\* The average pick number of a player and position over a set of drafts.
AveragePick(player, position, drafts) ==
    LET rows == {i \in DOMAIN df : /\ df[i].player = player /\ df[i].Position = position
                                   /\ df[i].draft \in drafts}
    IN  Fraction(SumOver([i \in rows |-> df[i].pick], rows), Cardinality(rows))

PairsIn(drafts) ==
    {<<df[i].player, df[i].Position>> : i \in {k \in DOMAIN df : df[k].draft \in drafts}}

\* C24: the drafts with id at most the median id are the early half, the
\* others the late half; there is exactly one row for each (player,
\* position) with picks in both halves and none for another pair, its drift
\* is the late average pick minus the early average pick, and the rows are
\* in descending order of drift.
C24_DriftOverBothHalves ==
    AdpDriftReturned /\ picks # <<>> =>
        /\ {<<result.rows[i].player, result.rows[i].Position>> : i \in DOMAIN result.rows}
               = PairsIn(EarlyDrafts) \cap PairsIn(LateDrafts)
        /\ Len(result.rows) = Cardinality(PairsIn(EarlyDrafts) \cap PairsIn(LateDrafts))
        /\ \A i \in DOMAIN result.rows :
               result.rows[i].drift
                   = FractionMinus(
                         AveragePick(result.rows[i].player, result.rows[i].Position, LateDrafts),
                         AveragePick(result.rows[i].player, result.rows[i].Position, EarlyDrafts))
        /\ \A i, j \in DOMAIN result.rows :
               i < j => ~FractionLess(result.rows[i].drift, result.rows[j].drift)

StacksReturned == pc = "returned" /\ call.op = "get_stacks"

\* The stacks of the file within the first n_rounds: a QB pick and a WR or
\* TE pick of the same team of the same draft and the same NFL team.
StackPairs ==
    {c \in (DOMAIN picks) \X (DOMAIN picks) :
        /\ picks[c[1]].Position = "QB"
        /\ picks[c[2]].Position \in {"WR", "TE"}
        /\ picks[c[1]].draft = picks[c[2]].draft
        /\ picks[c[1]].team_id = picks[c[2]].team_id
        /\ picks[c[1]].Team = picks[c[2]].Team
        /\ picks[c[1]].round <= call.n_rounds
        /\ picks[c[2]].round <= call.n_rounds}

StackRowOf(c) ==
    [draft |-> picks[c[1]].draft, team_id |-> picks[c[1]].team_id,
     nfl_team |-> picks[c[1]].Team, qb |-> picks[c[1]].player,
     receiver |-> picks[c[2]].player, round_qb |-> picks[c[1]].round,
     round_receiver |-> picks[c[2]].round]

\* C25: every row of get_stacks is such a pair, and when there are at most
\* limit pairs every pair is returned exactly once.
C25_StacksAreSameTeamPairs ==
    StacksReturned =>
        /\ \A i \in DOMAIN result.rows : \E c \in StackPairs : result.rows[i] = StackRowOf(c)
        /\ Cardinality(StackPairs) <= call.limit =>
               /\ Len(result.rows) = Cardinality(StackPairs)
               /\ \A c \in StackPairs :
                      Cardinality({i \in DOMAIN result.rows : result.rows[i] = StackRowOf(c)}) = 1

\* A stacks call has returned a pair with a WR and a pair with a TE, on a
\* file where a team also drafted a QB and a receiver of different NFL teams
\* in the window.
C25_Witness ==
    /\ StacksReturned
    /\ Len(result.rows) = Cardinality(StackPairs)
    /\ Len(result.rows) >= 2
    /\ \E c \in StackPairs : picks[c[2]].Position = "TE"
    /\ \E c \in StackPairs : picks[c[2]].Position = "WR"
    /\ \E i, j \in DOMAIN picks :
           /\ picks[i].Position = "QB" /\ picks[j].Position \in {"WR", "TE"}
           /\ picks[i].team_id = picks[j].team_id
           /\ picks[i].Team # picks[j].Team
           /\ picks[i].round <= call.n_rounds /\ picks[j].round <= call.n_rounds

(***************************************************************************)
(* The responses of the endpoints that report errors: player details,      *)
(* position statistics and roster construction.                            *)
(***************************************************************************)
\* DataService.get_player_details: {} when no row matches, else the
\* identifiers, the picks and the rounds with the aggregates (std_dev_pick
\* left out: the response model has no such field).
DataService_get_player_details(frame, player_name, position, team) ==
    LET player_df == SelectSeq(frame, LAMBDA row : /\ row.player = player_name
                                                   /\ row.Position = position
                                                   /\ row.Team = team)
    IN  IF player_df = <<>> THEN <<>>
        ELSE [avg_pick |-> Fraction(SumPicks(player_df), Len(player_df)),
              min_pick |-> MinPick(player_df), max_pick |-> MaxPick(player_df),
              total_drafts |-> Cardinality({player_df[i].team_id : i \in DOMAIN player_df}),
              player_name |-> player_name, position |-> position, team |-> team,
              picks |-> [i \in DOMAIN player_df |-> player_df[i].pick],
              rounds |-> [i \in DOMAIN player_df |-> player_df[i].round]]

\* schemas.py PlayerDetailsResponse
PlayerDetailsResponse(details) ==
    BuildModel({"player_name", "position", "team", "picks", "rounds"}, details)

\* str(e) of the HTTPException raised for a missing player: the text the
\* installed Starlette gives it.
HTTPExceptionText == {"404: Player not found", ""}

\* The 500 response of GET /api/players/details for an exception text.
PlayerDetailsFailure(text) == InternalError("Failed to fetch player details: " \o text)

\* GET /api/players/details: the 404 is raised inside the try block, and
\* the except clause for Exception, of which HTTPException is a subclass,
\* answers 500 with the text of what it caught.
api_get_player_details(frame, player_name, position, team) ==
    LET details == DataService_get_player_details(frame, player_name, position, team)
    IN  IF DOMAIN details = {}
        THEN {PlayerDetailsFailure(text) : text \in HTTPExceptionText}
        ELSE {[status |-> 200, body |-> PlayerDetailsResponse(details)]}

\* str(e) of the ValueError of list.index for a member of the Position enum.
NotInListText(p) == "<Position." \o p \o ": '" \o p \o "'> is not in list"

\* The text of the ValueError of position_order.index: it names the
\* position that is not in the list; the rows reach the sort in any order.
ValueErrorTexts(frame) ==
    {NotInListText(p) :
        p \in {q \in {frame[i].Position : i \in DOMAIN frame} : q \notin Range(position_order)}}

RECURSIVE SumTotalDrafted(_)
SumTotalDrafted(stats) ==
    IF stats = <<>> THEN 0 ELSE stats[1].total_drafted + SumTotalDrafted(Tail(stats))

\* The 500 response of GET /api/positions/stats for an exception text.
PositionStatsFailure(text) == InternalError("Failed to fetch position statistics: " \o text)

\* GET /api/positions/stats
api_get_position_stats(frame) ==
    IF ValueErrorTexts(frame) # {}
    THEN {PositionStatsFailure(text) : text \in ValueErrorTexts(frame)}
    ELSE {[status |-> 200, position_stats |-> stats, total_picks |-> SumTotalDrafted(stats)] :
             stats \in DataService_get_position_stats(frame)}

\* The 500 response of GET /api/positions/roster-construction, the same for
\* every exception.
RosterConstructionFailure(text) == InternalError("Internal server error")

\* GET /api/positions/roster-construction
api_get_roster_construction(frame) ==
    {IF constructions = ValidationError
     THEN RosterConstructionFailure("field required")
     ELSE [status |-> 200, body |-> constructions] :
        constructions \in DataService_get_roster_construction(frame)}

\* The files of these endpoints: team 101 drafts the first players of
\* FixedRoster, the other teams any roster of a pool with a kicker and a
\* defence.
ResponsePool == {"A.J. Brown", "AJ Dillon", "Jake Elliott", "Eagles"}

ResponseParquets ==
    {ParquetOf(FrameOf(ro)) :
        ro \in {r \in [TeamIds -> Rosters(Range(FixedRoster) \cup ResponsePool)] :
                    /\ \A k \in 1..MaxRound : r[101][k] = FixedRoster[k]
                    /\ \A k \in 1..MaxRound : r[102][k] \in ResponsePool
                    /\ \A k \in 1..MaxRound : r[201][k] \in ResponsePool}}

DetailNames == {"A.J. Brown", "Jalen Hurts"}
DetailPositions == {"WR", "QB"}
DetailTeams == {"PHI", "GB"}

InitResponses ==
    /\ picks \in ResponseParquets
    /\ df = initialize_data(picks)
    /\ metadata = initialize_metadata(df)
    /\ pc = "idle"
    /\ call = Loaded
    /\ result = <<>>

RequestPlayerDetails ==
    \E player_name \in DetailNames, position \in DetailPositions, team \in DetailTeams :
        /\ Enter
        /\ call' = [op |-> "GET /players/details", player_name |-> player_name,
                    position |-> position, team |-> team]

GetPlayerDetails ==
    Return("GET /players/details",
           api_get_player_details(df, call.player_name, call.position, call.team))

RequestPositionStatsResponse ==
    /\ Enter
    /\ call' = [op |-> "GET /positions/stats"]

GetPositionStatsResponse == Return("GET /positions/stats", api_get_position_stats(df))

RequestRosterConstructionResponse ==
    /\ Enter
    /\ call' = [op |-> "GET /positions/roster-construction"]

GetRosterConstructionResponse ==
    Return("GET /positions/roster-construction", api_get_roster_construction(df))

NextResponses ==
    \/ RequestPlayerDetails
    \/ GetPlayerDetails
    \/ RequestPositionStatsResponse
    \/ GetPositionStatsResponse
    \/ RequestRosterConstructionResponse
    \/ GetRosterConstructionResponse
    \/ Delivered

SpecResponses == InitResponses /\ [][NextResponses]_vars

(***************************************************************************)
(* The error responses: what they are checked against.                     *)
(***************************************************************************)
PlayerDetailsReturned == pc = "returned" /\ call.op = "GET /players/details"

\* C26: a player-details lookup for a (player, position, team) without rows
\* is answered with status 404, not with status 500.
C26_MissingPlayerIsNotFound ==
    PlayerDetailsReturned
        /\ (\A i \in DOMAIN df : ~(/\ df[i].player = call.player_name
                                   /\ df[i].Position = call.position
                                   /\ df[i].Team = call.team))
    => result.status = 404

\* The texts of the exceptions position_order.index can raise.
ExceptionTexts == {NotInListText(p) : p \in Position \ Range(position_order)}

\* The endpoints whose 500 response reports an exception of the query.
QueryEndpoints == {"GET /positions/stats", "GET /positions/roster-construction"}

\* The 500 response of such an endpoint for an exception text.
FailureOf(op, text) ==
    CASE op = "GET /positions/stats" -> PositionStatsFailure(text)
      [] op = "GET /positions/roster-construction" -> RosterConstructionFailure(text)

\* C27: when a query raises inside a handler the response is a generic
\* internal error, the same whatever the text of the exception.
C27_ErrorResponseIsGeneric ==
    pc = "returned" /\ call.op \in QueryEndpoints /\ result.status = 500 =>
        \A text \in ExceptionTexts : FailureOf(call.op, text) = result

\* The display string of a roster: its positions in ascending order of
\* name, each with its count.
RosterPositionCounts(team) ==
    LET pos == SortedStrings(Range(team.positions))
    IN  StrJoin([k \in DOMAIN pos |->
                    pos[k] \o ": " \o ToString(PositionCount(team, pos[k]))], ", ")

\* C28: position_counts of every combination lists the positions of that
\* roster in ascending order of name as "POS: count" joined by ", ", and no
\* position the roster does not hold.
C28_PositionCountsOmitAbsent ==
    CombinationsReturned =>
        \A i \in DOMAIN result : result[i].position_counts = RosterPositionCounts(result[i])

\* The three endpoints that build HeatMapCell, StackEntry and DriftEntry.
AnalyticsEndpoints ==
    {"GET /analytics/heat-map", "GET /analytics/stacks", "GET /analytics/drift"}

\* C30: on a non-empty dataset the heat-map, stacks and drift endpoints build
\* their entries from the service rows without error and answer 200.
C30_EntriesBuildFromServiceRows ==
    pc = "returned" /\ call.op \in AnalyticsEndpoints /\ picks # <<>> =>
        result.status = 200

====
